---- MODULE Spec2Model ----
(***************************************************************************)
(* A model of util/combine_src.py: the script that merges the Duktape      *)
(* source tree (internal headers and .c files of one directory) into one   *)
(* C file with #line directives.                                           *)
(*                                                                         *)
(* The state is that of one run of main(): the directory as the file       *)
(* system presents it (listing, tree), main's locals (filelist, files,     *)
(* extinc, intinc, final), createCombined's locals (res, emit_state,       *)
(* processed), the call stack of the recursive processHeader, the position *)
(* of the body-file loop, and the output file.                             *)
(***************************************************************************)
EXTENDS Integers, Sequences, FiniteSets, TLC

VARIABLES
    listing,      \* what os.listdir(sys.argv[1]) returns, in the order it returns it
    tree,         \* file name -> the file's lines (text of each line)
    handpick,     \* main's priority list (before handpick.reverse())
    pc,           \* where main() is
    err,          \* the exception that ended the run, or None
    filelist,     \* main's filelist
    files,        \* main's files: the loaded File objects, by base name, in order
    extinc,       \* main's extinc
    intinc,       \* main's intinc
    res,          \* createCombined's res: the output lines
    emit_state,   \* createCombined's emit_state: <<curr_filename, curr_lineno>>
    processed,    \* createCombined's processed: its keys
    stack,        \* the active calls of processHeader: <<[f_hdr, i]>>, innermost last
    fi,           \* body loop: index into files of the file being emitted
    li,           \* body loop: index of the next line of that file
    final,        \* main's final: what createCombined returned
    outfile       \* the file named outname: "untouched", "truncated" or "written"

vars == <<listing, tree, handpick, pc, err, filelist, files, extinc, intinc,
          res, emit_state, processed, stack, fi, li, final, outfile>>

(***************************************************************************)
(* Bounds of the model.                                                    *)
(***************************************************************************)
\* total number of lines of the varied files in the general family of trees
MaxLines == 3
\* total number of lines of the three headers in the include-graph family
MaxHdrLines == 4
\* the same, in the runs checked for termination
MaxCycleLines == 3
\* length of the priority list in the listing-order family
MaxPrio == 2
\* the interpreter's recursion limit (sys.getrecursionlimit()), scaled down
RecursionLimit == 8

(***************************************************************************)
(* Values.                                                                 *)
(***************************************************************************)
\* Python's None, where a name is expected
None == "None"
\* Python's None in emit_state[1], where a line number (>= 1) is expected
NoneLineno == 0

Range(s) == {s[i] : i \in 1..Len(s)}

\* The base names of the model, in the order Python's list.sort() puts them.
NameOrder == <<"README.txt", "duk_a.h", "duk_api.c", "duk_b.h", "duk_builtins.c",
               "duk_custom.h", "duk_debug_macros.c", "duk_internal.h",
               "duk_strings.c", "duktape.h", "foo.h", "stdio.h">>

Names == Range(NameOrder)

\* os.path.splitext(fn)[1]
splitext(fn) ==
    IF fn \in {"duk_a.h", "duk_b.h", "duk_custom.h", "duk_internal.h", "duktape.h",
               "foo.h", "stdio.h"} THEN ".h"
    ELSE IF fn \in {"duk_api.c", "duk_builtins.c", "duk_debug_macros.c",
                    "duk_strings.c"} THEN ".c"
    ELSE ".txt"

\* whether a name begins with the three characters duk
BeginsWithDuk(n) == n \in Names \ {"README.txt", "foo.h", "stdio.h"}

\* s1 < s2 for two Python strings (byte-wise lexicographic)
LexLess(a, b) ==
    (CHOOSE i \in 1..Len(NameOrder) : NameOrder[i] = a)
        < (CHOOSE i \in 1..Len(NameOrder) : NameOrder[i] = b)

(***************************************************************************)
(* The text of a line.  A line is either ordinary text, '#include <name>', *)
(* or '#include "name"'; nothing else begins with '#include' in the model. *)
(***************************************************************************)
Text == [form |-> "text", name |-> ""]
AngleInc(n) == [form |-> "angle", name |-> n]
QuoteInc(n) == [form |-> "quote", name |-> n]

\* line.data.startswith('#include')
startswith_include(data) == data.form # "text"

\* re_extinc.match(data): group(1), or None
re_extinc(data) == IF data.form = "angle" THEN data.name ELSE None

\* a pattern that takes any quoted name for an internal include
re_intincAnyQuoted(data) == IF data.form = "quote" THEN data.name ELSE None

\* a pattern that takes the angle-bracket form for an internal include too
re_intincAnyForm(data) ==
    IF data.form = "angle" \/ (data.form = "quote" /\ BeginsWithDuk(data.name))
    THEN data.name ELSE None

\* re_intinc.match(data): group(1), or None
re_intinc(data) ==
    IF data.form = "quote" /\ BeginsWithDuk(data.name) THEN data.name ELSE None

\* class Line
Line(filename, lineno, data) ==
    [filename |-> filename, lineno |-> lineno, data |-> data]

\* read(filename).lines: the Line objects of a file
read(filename) ==
    [i \in 1..Len(tree[filename]) |-> Line(filename, i, tree[filename][i])]

\* a lookup that finds every name, loaded or not
findFileAny(fs, filename) == filename

\* findFile(files, filename): the File of that base name, or None
findFile(fs, filename) ==
    IF \E i \in 1..Len(fs) : fs[i] = filename THEN filename ELSE None

(***************************************************************************)
(* processIncludes(f): the external and internal include names of a file,  *)
(* in order of appearance, or the exception for a line that begins with    *)
(* '#include' and matches neither re_extinc nor re_intinc.                 *)
(***************************************************************************)
RECURSIVE scanIncludes(_, _, _, _)
scanIncludes(lines, i, ext, int) ==
    IF i > Len(lines) THEN [raised |-> FALSE, extinc |-> ext, intinc |-> int]
    ELSE LET data == lines[i].data IN
         IF ~startswith_include(data) THEN scanIncludes(lines, i + 1, ext, int)
         ELSE IF re_extinc(data) # None
              THEN scanIncludes(lines, i + 1, Append(ext, re_extinc(data)), int)
         ELSE IF re_intinc(data) # None
              THEN scanIncludes(lines, i + 1, ext, Append(int, re_intinc(data)))
         ELSE [raised |-> TRUE, extinc |-> ext, intinc |-> int]

processIncludes(f) == scanIncludes(read(f), 1, <<>>, <<>>)

\* main, lines 282-289: append the names of new that acc does not hold yet
RECURSIVE addNew(_, _)
addNew(acc, new) ==
    IF new = <<>> THEN acc
    ELSE IF Head(new) \in Range(acc) THEN addNew(acc, Tail(new))
    ELSE addNew(Append(acc, Head(new)), Tail(new))

\* main, lines 278-289: the loop over files
RECURSIVE includesOfAll(_, _, _, _)
includesOfAll(fs, k, ext, int) ==
    IF k > Len(fs) THEN [raised |-> FALSE, extinc |-> ext, intinc |-> int]
    ELSE LET r == processIncludes(fs[k]) IN
         IF r.raised THEN [raised |-> TRUE, extinc |-> ext, intinc |-> int]
         ELSE includesOfAll(fs, k + 1, addNew(ext, r.extinc), addNew(int, r.intinc))

(***************************************************************************)
(* The order of filelist: filelist.sort(), then each name of the reversed  *)
(* handpick list moved to the front.                                       *)
(***************************************************************************)
\* x put into the sorted list s
insertSorted(x, s) ==
    LET k == Cardinality({i \in 1..Len(s) : LexLess(s[i], x)})
    IN  SubSeq(s, 1, k) \o <<x>> \o SubSeq(s, k + 1, Len(s))

\* filelist.sort()
RECURSIVE sort(_)
sort(s) == IF s = <<>> THEN <<>> ELSE insertSorted(Head(s), sort(Tail(s)))

\* the priority list left as written
reverseNot(s) == s

\* handpick.reverse()
RECURSIVE reverse(_)
reverse(s) == IF s = <<>> THEN <<>> ELSE Append(reverse(Tail(s)), Head(s))

\* idx = filelist.index(fn); filelist.insert(0, filelist.pop(idx))
moveToFront(list, fn) ==
    LET idx == CHOOSE i \in 1..Len(list) :
                   list[i] = fn /\ \A j \in 1..(i - 1) : list[j] # fn
    IN  <<fn>> \o SubSeq(list, 1, idx - 1) \o SubSeq(list, idx + 1, Len(list))

\* main, lines 262-269: the loop over the reversed handpick list
RECURSIVE relocate(_, _)
relocate(list, hp) ==
    IF hp = <<>> THEN list
    ELSE relocate(moveToFront(list, Head(hp)), Tail(hp))

(***************************************************************************)
(* createCombined's output lines.  An output line is a record: t says what *)
(* kind of line it is, data is its text; file and lineno are the origin of *)
(* a Line's text (kept for the properties; the marker line carries them in *)
(* its text).                                                              *)
(***************************************************************************)
\* res.append('#line %d "%s"' % (line.lineno, line.filename))
lineDirective(line) ==
    [t |-> "#line", file |-> line.filename, lineno |-> line.lineno,
     data |-> [form |-> "#line", name |-> line.filename]]

\* res.append(line.data)
dataLine(line) ==
    [t |-> "data", file |-> line.filename, lineno |-> line.lineno, data |-> line.data]

\* res.append(line) for a string
strLine(line) ==
    [t |-> "str", file |-> None, lineno |-> NoneLineno,
     data |-> [form |-> line.str, name |-> line.name]]

\* '/* already included: %s */' % f_inc.filename
alreadyIncluded(filename) == [str |-> "already included", name |-> filename]

\* '/* include removed: %s */' % incname
includeRemoved(incname) == [str |-> "include removed", name |-> incname]

\* isinstance(line, (str, unicode))
isStr(line) == "str" \in DOMAIN line

\* a condition that looks at the file name alone
needsDirectiveFileOnly(es, line) == line.filename # es[1]

\* the condition under which emit puts a marker before a Line
needsDirective(es, line) == line.filename # es[1] \/ line.lineno # es[2]

\* a synthetic line counted as two source lines
strAdvanceTwo == 1 + 1

\* a synthetic line that leaves emit_state as it is
strAdvanceNone == 1 - 1

\* what emit_state[1] += 1 adds
strAdvance == 1

(***************************************************************************)
(* emit(line), as a function of res and emit_state: the new res, the new   *)
(* emit_state, and whether it raised (emit_state[1] += 1 on None raises    *)
(* TypeError, after the append).                                           *)
(***************************************************************************)
emit(r, es, line) ==
    IF isStr(line)
    THEN IF es[2] = NoneLineno
         THEN [res |-> Append(r, strLine(line)), emit_state |-> es, raised |-> TRUE]
         ELSE [res |-> Append(r, strLine(line)),
               emit_state |-> <<es[1], es[2] + strAdvance>>, raised |-> FALSE]
    ELSE [res |-> IF needsDirective(es, line)
                  THEN Append(Append(r, lineDirective(line)), dataLine(line))
                  ELSE Append(r, dataLine(line)),
          emit_state |-> <<line.filename, line.lineno + 1>>,
          raised |-> FALSE]

\* createCombined, lines 147-168: the banner, the license and the authors text
banner ==
    [k \in 1..3 |->
        [t |-> "banner", file |-> None, lineno |-> NoneLineno,
         data |-> [form |-> "banner",
                   name |-> <<"version and commit", "LICENSE.txt", "AUTHORS.rst">>[k]]]]

(***************************************************************************)
(* main(), lines 236-252: the checks on the working directory, the         *)
(* directory listing, filelist.sort().                                     *)
(***************************************************************************)
ListDir ==
    /\ pc = "main"
    /\ \E license_exists \in BOOLEAN :
          IF license_exists
          THEN /\ filelist' = sort(listing)
               /\ pc' = "handpick"
               /\ UNCHANGED err
          ELSE /\ pc' = "error"
               /\ err' = "Exception: CWD must be Duktape checkout top"
               /\ UNCHANGED filelist
    /\ UNCHANGED <<listing, tree, handpick, files, extinc, intinc, res, emit_state,
                   processed, stack, fi, li, final, outfile>>

\* filelist.index(fn) raises ValueError for a name that filelist does not hold
indexRaises(list, hp) == \E i \in 1..Len(hp) : hp[i] \notin Range(list)

(***************************************************************************)
(* main(), lines 253-269: the priority files are moved to the front.       *)
(***************************************************************************)
Handpick ==
    /\ pc = "handpick"
    /\ IF indexRaises(filelist, handpick)
       THEN /\ pc' = "error"
            /\ err' = "ValueError"
            /\ UNCHANGED filelist
       ELSE /\ filelist' = relocate(filelist, reverse(handpick))
            /\ pc' = "read"
            /\ UNCHANGED err
    /\ UNCHANGED <<listing, tree, handpick, files, extinc, intinc, res, emit_state,
                   processed, stack, fi, li, final, outfile>>

\* main, lines 270-274: the names of filelist that are read
sourceNames(list) == SelectSeq(list, LAMBDA fn : splitext(fn) \in {".c", ".h"})

(***************************************************************************)
(* main(), lines 270-275: every .c and .h file of filelist is read; a read *)
(* that fails raises IOError.                                              *)
(***************************************************************************)
ReadFiles ==
    /\ pc = "read"
    /\ \E readable \in BOOLEAN :
          IF readable
          THEN /\ files' = sourceNames(filelist)
               /\ pc' = "includes"
               /\ UNCHANGED err
          ELSE /\ pc' = "error"
               /\ err' = "IOError: read"
               /\ UNCHANGED files
    /\ UNCHANGED <<listing, tree, handpick, filelist, extinc, intinc, res, emit_state,
                   processed, stack, fi, li, final, outfile>>

\* main() with the output file opened before createCombined is called
ProcessIncludesOpensOutput ==
    /\ pc = "includes"
    /\ LET r == includesOfAll(files, 1, <<>>, <<>>) IN
          IF r.raised
          THEN /\ pc' = "error"
               /\ err' = "Exception: cannot parse include directive"
               /\ UNCHANGED <<extinc, intinc, outfile>>
          ELSE /\ extinc' = r.extinc
               /\ intinc' = r.intinc
               /\ pc' = "createCombined"
               /\ outfile' = "truncated"
               /\ UNCHANGED err
    /\ UNCHANGED <<listing, tree, handpick, filelist, files, res, emit_state,
                   processed, stack, fi, li, final>>

(***************************************************************************)
(* main(), lines 277-297: processIncludes over every file.                 *)
(***************************************************************************)
ProcessIncludes ==
    /\ pc = "includes"
    /\ LET r == includesOfAll(files, 1, <<>>, <<>>) IN
          IF r.raised
          THEN /\ pc' = "error"
               /\ err' = "Exception: cannot parse include directive"
               /\ UNCHANGED <<extinc, intinc>>
          ELSE /\ extinc' = r.extinc
               /\ intinc' = r.intinc
               /\ pc' = "createCombined"
               /\ UNCHANGED err
    /\ UNCHANGED <<listing, tree, handpick, filelist, files, res, emit_state,
                   processed, stack, fi, li, final, outfile>>

(***************************************************************************)
(* createCombined, lines 135-213 up to the call processHeader(f_dukint):   *)
(* the banner (LICENSE.txt and AUTHORS.rst are read: IOError), the fresh   *)
(* emit_state and processed, the root header looked up and asserted.       *)
\* createCombined with the processed set kept in a dictionary of the module,
\* which a second call finds as the first call left it
CreateCombinedSharedProcessed ==
    /\ pc = "createCombined"
    /\ \E readable \in BOOLEAN :
          IF ~readable
          THEN /\ pc' = "error"
               /\ err' = "IOError: license"
               /\ UNCHANGED <<res, emit_state, processed, stack>>
          ELSE /\ res' = banner
               /\ emit_state' = <<None, NoneLineno>>
               /\ UNCHANGED processed
               /\ IF findFile(files, "duk_internal.h") = None
                  THEN /\ pc' = "error"
                       /\ err' = "AssertionError: f_dukint"
                       /\ UNCHANGED stack
                  ELSE /\ stack' = <<[f_hdr |-> findFile(files, "duk_internal.h"), i |-> 1]>>
                       /\ pc' = "processHeader"
                       /\ UNCHANGED err
    /\ UNCHANGED <<listing, tree, handpick, filelist, files, extinc, intinc,
                   fi, li, final, outfile>>

(***************************************************************************)
CreateCombined ==
    /\ pc = "createCombined"
    /\ \E readable \in BOOLEAN :
          IF ~readable
          THEN /\ pc' = "error"
               /\ err' = "IOError: license"
               /\ UNCHANGED <<res, emit_state, processed, stack>>
          ELSE /\ res' = banner
               /\ emit_state' = <<None, NoneLineno>>
               /\ processed' = {}
               /\ IF findFile(files, "duk_internal.h") = None
                  THEN /\ pc' = "error"
                       /\ err' = "AssertionError: f_dukint"
                       /\ UNCHANGED stack
                  ELSE /\ stack' = <<[f_hdr |-> findFile(files, "duk_internal.h"), i |-> 1]>>
                       /\ pc' = "processHeader"
                       /\ UNCHANGED err
    /\ UNCHANGED <<listing, tree, handpick, filelist, files, extinc, intinc,
                   fi, li, final, outfile>>

\* the innermost active call of processHeader
top == stack[Len(stack)]

\* the loop of the innermost call moves to its next line
nextLine(st) == [st EXCEPT ![Len(st)].i = @ + 1]

\* a list of kept headers without duktape.h
keptAsIsNarrow == {"duk_custom.h"}

\* a list of kept headers that holds a header of the tree too
keptAsIsWide == {"duktape.h", "duk_custom.h", "duk_b.h"}

\* line 192: the headers kept as include directives
keptAsIs == {"duktape.h", "duk_custom.h"}

\* a header that is not marked before it is descended into
markProcessedNot(done, filename) == done

\* a test that never finds a header processed
alreadyProcessedNever(done, filename) == FALSE

\* lines 201 and 205: processed.has_key(f_inc.filename), checked before the call
alreadyProcessed(done, filename) == filename \in done

\* line 205: processed[f_inc.filename] = True
markProcessed(done, filename) == done \cup {filename}

(***************************************************************************)
(* processHeader, lines 186-208: one iteration of the loop over the lines  *)
(* of f_hdr, in the innermost active call.                                 *)
(***************************************************************************)
ProcessHeaderLine ==
    /\ pc = "processHeader"
    /\ top.i <= Len(read(top.f_hdr))
    /\ LET line == read(top.f_hdr)[top.i]
           incname == re_intinc(line.data)
           f_inc == findFile(files, incname)
       IN  IF incname = None \/ incname \in keptAsIs
           THEN LET e == emit(res, emit_state, line) IN
                /\ res' = e.res
                /\ emit_state' = e.emit_state
                /\ stack' = nextLine(stack)
                /\ UNCHANGED <<pc, err, processed>>
           ELSE IF f_inc = None
           THEN /\ pc' = "error"
                /\ err' = "AssertionError: f_inc"
                /\ UNCHANGED <<res, emit_state, stack, processed>>
           ELSE IF alreadyProcessed(processed, f_inc)
           THEN LET e == emit(res, emit_state, alreadyIncluded(f_inc)) IN
                /\ res' = e.res
                /\ emit_state' = e.emit_state
                /\ IF e.raised
                   THEN pc' = "error" /\ err' = "TypeError" /\ UNCHANGED stack
                   ELSE stack' = nextLine(stack) /\ UNCHANGED <<pc, err>>
                /\ UNCHANGED processed
           ELSE /\ processed' = markProcessed(processed, f_inc)
                /\ IF Len(stack) >= RecursionLimit
                   THEN /\ pc' = "error"
                        /\ err' = "RuntimeError: maximum recursion depth exceeded"
                        /\ UNCHANGED stack
                   ELSE /\ stack' = Append(nextLine(stack), [f_hdr |-> f_inc, i |-> 1])
                        /\ UNCHANGED <<pc, err>>
                /\ UNCHANGED <<res, emit_state>>
    /\ UNCHANGED <<listing, tree, handpick, filelist, files, extinc, intinc,
                   fi, li, final, outfile>>

(***************************************************************************)
(* processHeader: the loop over the lines of f_hdr ends and the call       *)
(* returns, to the calling processHeader or to createCombined (line 213).  *)
(***************************************************************************)
ProcessHeaderReturn ==
    /\ pc = "processHeader"
    /\ top.i > Len(read(top.f_hdr))
    /\ stack' = SubSeq(stack, 1, Len(stack) - 1)
    /\ pc' = IF Len(stack) = 1 THEN "mark" ELSE "processHeader"
    /\ UNCHANGED <<listing, tree, handpick, err, filelist, files, extinc, intinc, res,
                   emit_state, processed, fi, li, final, outfile>>

(***************************************************************************)
(* createCombined, lines 215-219: every .h file is marked processed.       *)
\* createCombined without lines 215-219: no header is marked after the expansion
MarkHeadersNone ==
    /\ pc = "mark"
    /\ pc' = "body"
    /\ fi' = 1
    /\ li' = 1
    /\ UNCHANGED <<listing, tree, handpick, err, filelist, files, extinc, intinc, res,
                   emit_state, processed, stack, final, outfile>>

(***************************************************************************)
MarkHeaders ==
    /\ pc = "mark"
    /\ processed' = processed \cup {f \in Range(files) : splitext(f) = ".h"}
    /\ pc' = "body"
    /\ fi' = 1
    /\ li' = 1
    /\ UNCHANGED <<listing, tree, handpick, err, filelist, files, extinc, intinc, res,
                   emit_state, stack, final, outfile>>

(***************************************************************************)
(* createCombined, lines 222-224: a processed file is skipped.             *)
(***************************************************************************)
BodySkipFile ==
    /\ pc = "body"
    /\ fi <= Len(files)
    /\ files[fi] \in processed
    /\ fi' = fi + 1
    /\ li' = 1
    /\ UNCHANGED <<listing, tree, handpick, pc, err, filelist, files, extinc, intinc,
                   res, emit_state, processed, stack, final, outfile>>

(***************************************************************************)
(* createCombined, lines 226-232: one line of a file that is not processed.*)
\* the loop of lines 226-232 entered for a processed file too
BodyLineOfAnyFile ==
    /\ pc = "body"
    /\ fi <= Len(files)
    /\ li <= Len(read(files[fi]))
    /\ LET line == read(files[fi])[li]
           incname == re_intinc(line.data)
           e == IF incname = None
                THEN emit(res, emit_state, line)
                ELSE emit(res, emit_state, includeRemoved(incname))
       IN  /\ res' = e.res
           /\ emit_state' = e.emit_state
           /\ IF e.raised
              THEN pc' = "error" /\ err' = "TypeError" /\ UNCHANGED li
              ELSE li' = li + 1 /\ UNCHANGED <<pc, err>>
    /\ UNCHANGED <<listing, tree, handpick, filelist, files, extinc, intinc,
                   processed, stack, fi, final, outfile>>

(***************************************************************************)
BodyLine ==
    /\ pc = "body"
    /\ fi <= Len(files)
    /\ files[fi] \notin processed
    /\ li <= Len(read(files[fi]))
    /\ LET line == read(files[fi])[li]
           incname == re_intinc(line.data)
           e == IF incname = None
                THEN emit(res, emit_state, line)
                ELSE emit(res, emit_state, includeRemoved(incname))
       IN  /\ res' = e.res
           /\ emit_state' = e.emit_state
           /\ IF e.raised
              THEN pc' = "error" /\ err' = "TypeError" /\ UNCHANGED li
              ELSE li' = li + 1 /\ UNCHANGED <<pc, err>>
    /\ UNCHANGED <<listing, tree, handpick, filelist, files, extinc, intinc,
                   processed, stack, fi, final, outfile>>

(***************************************************************************)
(* createCombined, line 226: the lines of the file are exhausted.          *)
(***************************************************************************)
BodyEndFile ==
    /\ pc = "body"
    /\ fi <= Len(files)
    /\ files[fi] \notin processed
    /\ li > Len(read(files[fi]))
    /\ fi' = fi + 1
    /\ li' = 1
    /\ UNCHANGED <<listing, tree, handpick, pc, err, filelist, files, extinc, intinc,
                   res, emit_state, processed, stack, final, outfile>>

(***************************************************************************)
(* createCombined, line 234, and main, line 300: the lines are joined and  *)
(* returned to main.                                                       *)
(***************************************************************************)
ReturnCombined ==
    /\ pc = "body"
    /\ fi > Len(files)
    /\ final' = res
    /\ pc' = "output"
    /\ UNCHANGED <<listing, tree, handpick, err, filelist, files, extinc, intinc, res,
                   emit_state, processed, stack, fi, li, outfile>>

(***************************************************************************)
(* main, lines 301-305: the output file is opened for writing (which       *)
(* truncates it), written and closed; either call may raise IOError.       *)
(***************************************************************************)
WriteOutput ==
    /\ pc = "output"
    /\ \E outcome \in {"ok", "open raises", "write raises"} :
          /\ outfile' = CASE outcome = "ok" -> "written"
                          [] outcome = "open raises" -> outfile
                          [] outcome = "write raises" -> "truncated"
          /\ pc' = IF outcome = "ok" THEN "done" ELSE "error"
          /\ err' = IF outcome = "ok" THEN err ELSE "IOError: output"
    /\ UNCHANGED <<listing, tree, handpick, filelist, files, extinc, intinc, res,
                   emit_state, processed, stack, fi, li, final>>

Next ==
    \/ ListDir
    \/ Handpick
    \/ ReadFiles
    \/ ProcessIncludes
    \/ CreateCombined
    \/ ProcessHeaderLine
    \/ ProcessHeaderReturn
    \/ MarkHeaders
    \/ BodySkipFile
    \/ BodyLine
    \/ BodyEndFile
    \/ ReturnCombined
    \/ WriteOutput

(***************************************************************************)
(* The runs that are checked.  A run starts at the top of main(); what     *)
(* varies is the directory: its listing, in the order os.listdir returns   *)
(* it, and the text of its files.                                          *)
(***************************************************************************)
\* the state at the top of main(), the directory and the priority list apart
AtStart ==
    /\ pc = "main"
    /\ err = None
    /\ filelist = <<>>
    /\ files = <<>>
    /\ extinc = <<>>
    /\ intinc = <<>>
    /\ res = <<>>
    /\ emit_state = <<None, NoneLineno>>
    /\ processed = {}
    /\ stack = <<>>
    /\ fi = 1
    /\ li = 1
    /\ final = <<>>
    /\ outfile = "untouched"

\* the sequences of length n over S
SeqsOfLen(S, n) == [1..n -> S]

\* the sequences over S without repetition, of length at most n
DistinctSeqs(S, n) ==
    UNION {{s \in SeqsOfLen(S, k) : \A i, j \in 1..k : i # j => s[i] # s[j]} : k \in 0..n}

\* the lines a header of the general family may hold
HeaderLines ==
    {Text, AngleInc("stdio.h"), QuoteInc("duk_internal.h"), QuoteInc("duk_a.h"),
     QuoteInc("duk_b.h"), QuoteInc("duktape.h"), QuoteInc("foo.h"),
     QuoteInc("duk_strings.c")}

\* the lines the .c file of the general family may hold
BodyLines ==
    {Text, AngleInc("stdio.h"), QuoteInc("duk_internal.h"), QuoteInc("duk_b.h"),
     QuoteInc("duktape.h"), QuoteInc("foo.h")}

\* the lines a header of the include-graph family may hold
GraphLines ==
    {Text, QuoteInc("duk_internal.h"), QuoteInc("duk_a.h"), QuoteInc("duk_b.h")}

\* The general family: duk_internal.h, duk_a.h and duk_strings.c hold at most
\* MaxLines lines together, of every kind (duk_b.h is not in the directory).
InitGeneral ==
    /\ AtStart
    /\ listing = <<"duk_strings.c", "duk_internal.h", "README.txt", "duk_a.h">>
    /\ handpick = <<"duk_strings.c">>
    /\ \E n1 \in 0..MaxLines : \E n2 \in 0..(MaxLines - n1) :
       \E n3 \in 0..(MaxLines - n1 - n2) :
       \E c1 \in SeqsOfLen(HeaderLines, n1), c2 \in SeqsOfLen(HeaderLines, n2),
          c3 \in SeqsOfLen(BodyLines, n3) :
          tree = [f \in Names |->
                    CASE f = "duk_internal.h" -> c1
                      [] f = "duk_a.h" -> c2
                      [] f = "duk_strings.c" -> c3
                      [] OTHER -> <<>>]

\* The include-graph family: duk_internal.h, duk_a.h and duk_b.h hold at most
\* n lines together, text and internal includes of one another.
GraphOfLines(n) ==
    /\ AtStart
    /\ listing = <<"duk_b.h", "duk_strings.c", "duk_a.h", "duk_internal.h">>
    /\ handpick = <<"duk_strings.c">>
    /\ \E n1 \in 0..n : \E n2 \in 0..(n - n1) : \E n3 \in 0..(n - n1 - n2) :
       \E c1 \in SeqsOfLen(GraphLines, n1), c2 \in SeqsOfLen(GraphLines, n2),
          c3 \in SeqsOfLen(GraphLines, n3) :
          tree = [f \in Names |->
                    CASE f = "duk_internal.h" -> c1
                      [] f = "duk_a.h" -> c2
                      [] f = "duk_b.h" -> c3
                      [] f = "duk_strings.c" -> <<Text>>
                      [] OTHER -> <<>>]

\* the .c files of the listing-order family
OrderBodies == {"duk_api.c", "duk_builtins.c", "duk_debug_macros.c", "duk_strings.c"}

\* The listing-order family: any subset of the root header and four .c files,
\* listed in any order, each file one line of text; any priority list of at
\* most MaxPrio of the .c names.
InitOrder ==
    /\ AtStart
    /\ \E S \in SUBSET (OrderBodies \cup {"duk_internal.h"}) :
          listing \in {s \in SeqsOfLen(S, Cardinality(S)) : Range(s) = S}
    /\ handpick \in DistinctSeqs(OrderBodies, MaxPrio)
    /\ tree = [f \in Names |-> IF f \in OrderBodies \cup {"duk_internal.h"}
                               THEN <<Text>> ELSE <<>>]

InitGraph == GraphOfLines(MaxHdrLines)

InitCycle == GraphOfLines(MaxCycleLines)

Init == InitGeneral \/ InitGraph

Spec == Init /\ [][Next]_vars

SpecOrder == InitOrder /\ [][Next]_vars

\* main() is one sequential program: a step that can be taken is taken
FairSpec == InitCycle /\ [][Next]_vars /\ WF_vars(Next)

\* every run of the three families
SpecAll == (Init \/ InitOrder) /\ [][Next]_vars

(***************************************************************************)
(* createCombined, lines 134-137 and 181: a caller that has the result of  *)
(* createCombined calls it again with the same files and licence.  The     *)
(* names res, emit_state and processed are bound anew by the call; what    *)
(* the previous call left is still in the state when the call starts.      *)
(***************************************************************************)
CallAgain ==
    /\ pc = "output"
    /\ pc' = "createCombined"
    /\ UNCHANGED <<listing, tree, handpick, err, filelist, files, extinc, intinc, res,
                   emit_state, processed, stack, fi, li, final, outfile>>

NextTwice == Next \/ CallAgain

\* the runs in which createCombined may be called more than once
SpecTwice == Init /\ [][NextTwice]_vars


(***************************************************************************)
(* Notions the properties are stated in.                                   *)
(***************************************************************************)
\* the names of the loaded files
Loaded == Range(files)

\* createCombined has returned its output
Returned == pc \in {"output", "done"}

\* the name a line includes as an internal header ('#include "duk..."'), or None
InternalName(data) ==
    IF data.form = "quote" /\ BeginsWithDuk(data.name) THEN data.name ELSE None

\* the name a line includes as an external header ('#include <...>'), or None
ExternalName(data) == IF data.form = "angle" THEN data.name ELSE None

\* the headers that stay include directives
KeptNames == {"duktape.h", "duk_custom.h"}

\* the loaded files that file f includes as internal headers to be inlined
Targets(f) ==
    {n \in Loaded \ KeptNames :
        \E i \in 1..Len(tree[f]) : InternalName(tree[f][i]) = n}

RECURSIVE ReachFrom(_)
ReachFrom(S) ==
    LET T == S \cup UNION {Targets(f) : f \in S}
    IN  IF T = S THEN S ELSE ReachFrom(T)

\* the loaded files reachable from the root header through internal includes
Reachable == IF "duk_internal.h" \in Loaded THEN ReachFrom({"duk_internal.h"}) ELSE {}

\* the lines of the files of S, as <<file, line number>>
LinesOf(S) == UNION {{<<f, i>> : i \in 1..Len(tree[f])} : f \in S}

\* the number of output lines that are line i of file f
Occ(f, i) ==
    Cardinality({j \in 1..Len(res) :
        res[j].t = "data" /\ res[j].file = f /\ res[j].lineno = i})

\* the number of '/* already included: h */' lines of the output
Placeholders(h) ==
    Cardinality({j \in 1..Len(res) :
        res[j].t = "str" /\ res[j].data = [form |-> "already included", name |-> h]})

\* the number of include directives naming h in the headers reachable from the root
Refs(h) ==
    Cardinality({x \in LinesOf(Reachable) : InternalName(tree[x[1]][x[2]]) = h})

(***************************************************************************)
(* C1. At-most-once header content: when createCombined has returned,      *)
(* every line that is not an internal include of every header reachable    *)
(* from the root (the root included) is in the output exactly once, and    *)
(* every reference to the header after its first encounter (for the root:  *)
(* every reference) has produced exactly one 'already included' line.      *)
(* Stated as the claim states it; the code violates it.                    *)
(***************************************************************************)
C1_HeaderContentOnce ==
    Returned =>
        \A h \in Reachable :
            /\ \A i \in 1..Len(tree[h]) :
                   InternalName(tree[h][i]) = None => Occ(h, i) = 1
            /\ Placeholders(h) = Refs(h) - (IF h = "duk_internal.h" THEN 0 ELSE 1)

(***************************************************************************)
(* C2. Provenance: every origin-tagged line of the output has a '#line'    *)
(* marker before it, and the nearest one, k output lines before the line   *)
(* (k = 0 when the line follows the marker directly), names the line's     *)
(* file and its line number minus k.                                       *)
(***************************************************************************)
C2_Provenance ==
    \A j \in 1..Len(res) :
        res[j].t = "data" =>
            \E m \in 1..(j - 1) :
                /\ res[m].t = "#line"
                /\ \A q \in (m + 1)..(j - 1) : res[q].t # "#line"
                /\ res[m].file = res[j].file
                /\ res[j].lineno = res[m].lineno + (j - m - 1)

\* C2 witness: a line of a header emitted straight after an 'already included'
\* line, so that its marker is at least two output lines back
C2_Witness ==
    \E j \in 3..Len(res) :
        /\ res[j].t = "data"
        /\ res[j - 1].t = "str"
        /\ res[j - 1].data.form = "already included"
        /\ res[j - 2].t = "data"

\* the index of the origin-tagged line emitted before output line j, or 0
PrevData(j) ==
    IF \E q \in 1..(j - 1) : res[q].t = "data"
    THEN CHOOSE q \in 1..(j - 1) :
             res[q].t = "data" /\ \A p \in (q + 1)..(j - 1) : res[p].t # "data"
    ELSE 0

\* the number of synthetic lines between output lines q and j
StrBetween(q, j) == Cardinality({p \in (q + 1)..(j - 1) : res[p].t = "str"})

ExternalLines == {x \in LinesOf(Loaded) : ExternalName(tree[x[1]][x[2]]) # None}

\* some header that is expanded includes the root header
RootIsIncluded == \E g \in Reachable : "duk_internal.h" \in Targets(g)

\* how often the lines of loaded file f are emitted in a run that completes
Emissions(f) ==
    IF f \in Reachable
    THEN IF f = "duk_internal.h" /\ RootIsIncluded THEN 2 ELSE 1
    ELSE IF splitext(f) = ".c" THEN 1 ELSE 0

(***************************************************************************)
(* C4, as claimed. External includes are never deduplicated: when          *)
(* createCombined has returned, every '#include <name>' line of every      *)
(* loaded file (header or .c file, reachable from the root or not) is in   *)
(* the output exactly once, so that a directive that N files hold is in    *)
(* the output N times.                                                     *)
(***************************************************************************)
C4_ExternalOncePerFile ==
    Returned => \A x \in ExternalLines : Occ(x[1], x[2]) = 1

(***************************************************************************)
(* C4, amended. When createCombined has returned, every '#include <name>'  *)
(* line of a loaded file is in the output, unchanged, once for each time   *)
(* the file is emitted: once for a .c file and for a header reachable from *)
(* the root, twice for the root header when an expanded header includes    *)
(* it, and not at all for a header that is not reachable from the root.    *)
(***************************************************************************)
C4_ExternalPerEmission ==
    Returned =>
        \A x \in ExternalLines :
            /\ Occ(x[1], x[2]) = Emissions(x[1])
            /\ \A j \in 1..Len(res) :
                   (res[j].t = "data" /\ res[j].file = x[1] /\ res[j].lineno = x[2])
                       => res[j].data = tree[x[1]][x[2]]

\* C4 witness: the run completed, the same external include is a line of a
\* header and of a .c file, and the output holds both
C4_Witness ==
    /\ Returned
    /\ \E x, y \in ExternalLines :
          /\ splitext(x[1]) = ".h"
          /\ splitext(y[1]) = ".c"
          /\ tree[x[1]][x[2]] = tree[y[1]][y[2]]
          /\ Occ(x[1], x[2]) = 1
          /\ Occ(y[1], y[2]) = 1

\* a line that begins with '#include' and has neither the angle-bracket form
\* nor the quoted form with a name that begins with duk
Malformed(data) ==
    /\ data.form # "text"
    /\ data.form # "angle"
    /\ ~(data.form = "quote" /\ BeginsWithDuk(data.name))

\* some loaded file holds a malformed include line
SomeMalformed ==
    \E f \in Loaded : \E i \in 1..Len(tree[f]) : Malformed(tree[f][i])

(***************************************************************************)
(* C5. Fail-fast on malformed includes: once the files are loaded and one  *)
(* of them holds a malformed include line, the run gets no further than    *)
(* the include scan, where it ends with the parse exception: nothing of    *)
(* createCombined runs and the output file is not touched.                 *)
(***************************************************************************)
C5_FailFast ==
    SomeMalformed =>
        /\ pc \in {"includes", "error"}
        /\ pc = "error" => err = "Exception: cannot parse include directive"
        /\ res = <<>>
        /\ final = <<>>
        /\ outfile = "untouched"

\* C5 witness: a run ended by the parse exception
C5_Witness ==
    /\ SomeMalformed
    /\ pc = "error"
    /\ err = "Exception: cannot parse include directive"

(***************************************************************************)
(* C6. Cycle safety: the expansion started by processHeader(root) ends (it *)
(* returns to createCombined or it raises), and the number of active calls *)
(* of processHeader never exceeds the number of loaded files plus one.     *)
(***************************************************************************)
C6_ExpansionTerminates ==
    /\ [](Len(stack) <= Cardinality(Loaded) + 1)
    /\ [](err # "RuntimeError: maximum recursion depth exceeded")
    /\ (pc = "processHeader") ~> (pc \in {"mark", "error"})

\* C6 witness: a cycle through the root header is being expanded: the root is
\* active twice, with as many active calls as there are loaded files
C6_Witness ==
    /\ pc = "processHeader"
    /\ Len(stack) = Cardinality(Loaded)
    /\ \E a, b \in 1..Len(stack) :
          a < b /\ stack[a].f_hdr = "duk_internal.h" /\ stack[b].f_hdr = "duk_internal.h"

\* the .c files of the output in the order of their first line
RECURSIVE bodyOrder(_, _)
bodyOrder(r, acc) ==
    IF r = <<>> THEN acc
    ELSE IF Head(r).t = "data" /\ splitext(Head(r).file) = ".c"
            /\ Head(r).file \notin Range(acc)
         THEN bodyOrder(Tail(r), Append(acc, Head(r).file))
         ELSE bodyOrder(Tail(r), acc)

\* the names of set S in lexicographic order
Ascending(S) ==
    CHOOSE s \in SeqsOfLen(S, Cardinality(S)) :
        \A i, j \in 1..Cardinality(S) : i < j => LexLess(s[i], s[j])

(***************************************************************************)
(* C7. Ordering policy: when createCombined has returned, the .c files     *)
(* were emitted in the order: the priority names in their order, then the  *)
(* other .c files of the directory in lexicographic order, whatever the    *)
(* order of the directory listing.                                         *)
(***************************************************************************)
C7_BodyOrder ==
    Returned =>
        bodyOrder(res, <<>>)
            = handpick \o Ascending({n \in Range(listing) :
                                        splitext(n) = ".c" /\ n \notin Range(handpick)})

\* C7 witness: the run completed with a listing that is not sorted, two
\* priority names in an order that is not the lexicographic one, and two
\* other .c files
C7_Witness ==
    /\ Returned
    /\ Len(handpick) = 2
    /\ LexLess(handpick[2], handpick[1])
    /\ Len(listing) = 5
    /\ \E i \in 1..4 : LexLess(listing[i + 1], listing[i])

\* the number of '/* include removed: ... */' lines of the output
RemovedLines ==
    Cardinality({j \in 1..Len(res) :
        res[j].t = "str" /\ res[j].data.form = "include removed"})

\* the internal include lines of the files that the body pass has passed
RemovedDue ==
    {x \in LinesOf({f \in Loaded \ Reachable : splitext(f) = ".c"}) :
        /\ InternalName(tree[x[1]][x[2]]) # None
        /\ \E k \in 1..Len(files) :
               files[k] = x[1] /\ (k < fi \/ (k = fi /\ x[2] < li))}

(***************************************************************************)
(* C8. Stray internal include in a body file, as claimed: in the body pass *)
(* every internal include line is replaced by exactly one 'include         *)
(* removed' line, and no such line makes the run fail.  The code violates  *)
(* it.                                                                     *)
(***************************************************************************)
C8_StrayIncludeRemoved ==
    (pc \in {"body", "output", "done", "error"} /\ stack = <<>> /\ res # <<>>
        /\ err \notin {"IOError: output", "AssertionError: f_dukint"})
    => /\ err = None
       /\ RemovedLines = Cardinality(RemovedDue)

\* an include directive of a loaded file names an internal header that is not loaded
SomeUnresolved ==
    \E f \in Loaded : \E i \in 1..Len(tree[f]) :
        InternalName(tree[f][i]) \notin ({None} \cup Loaded)

\* an include directive of a header that is expanded names an internal header
\* that is not loaded and is not one of those kept as directives
SomeUnresolvedExpanded ==
    \E f \in Reachable : \E i \in 1..Len(tree[f]) :
        InternalName(tree[f][i]) \notin ({None} \cup KeptNames \cup Loaded)

(***************************************************************************)
(* C9, as claimed. Whenever an internal include of a loaded file names a   *)
(* header that is not loaded, the run produces no output.                  *)
(***************************************************************************)
C9_UnresolvedIsFatal ==
    SomeUnresolved => (~Returned /\ outfile = "untouched")

(***************************************************************************)
(* C9, amended. Whenever an internal include of the root header or of a    *)
(* header reachable from it names a header that is not loaded and is       *)
(* neither duktape.h nor duk_custom.h, the run aborts with an error and    *)
(* produces no output.                                                     *)
(***************************************************************************)
C9_UnresolvedExpandedIsFatal ==
    SomeUnresolvedExpanded =>
        /\ ~Returned
        /\ pc \notin {"mark", "body"}
        /\ final = <<>>
        /\ outfile = "untouched"

\* C9 witness: the assertion on findFile's result ended the run
C9_Witness ==
    /\ SomeUnresolvedExpanded
    /\ pc = "error"
    /\ err = "AssertionError: f_inc"
    /\ outfile = "untouched"

(***************************************************************************)
(* C10. No partial output: the output file is touched only after           *)
(* createCombined has returned without error, and a run ended by any error *)
(* other than one of opening or writing the output has left it untouched.  *)
(***************************************************************************)
C10_NoPartialOutput ==
    /\ outfile # "untouched" =>
          /\ pc \in {"done", "error"}
          /\ err \in {None, "IOError: output"}
          /\ final = res
          /\ Len(final) >= Len(banner)
          /\ stack = <<>>
          /\ fi > Len(files)
    /\ (pc = "error" /\ err # "IOError: output") => outfile = "untouched"

\* C10 witness: a run that failed inside createCombined, with output lines
\* already collected, and the output file untouched
C10_Witness ==
    /\ pc = "error"
    /\ err = "TypeError"
    /\ Len(res) > Len(banner)
    /\ outfile = "untouched"

(***************************************************************************)
(* C11. Determinism and run isolation: a call of createCombined starts     *)
(* with the banner alone in res, the cursor at the sentinel and an empty   *)
(* processed set, whatever an earlier call left behind; and a call over    *)
(* the same files and licence as the call before it returns the same       *)
(* output, line for line (final holds what the call before returned).      *)
(***************************************************************************)
C11_RunIsolation ==
    [][/\ (pc = "createCombined" /\ pc' = "processHeader")
            => /\ res' = banner
               /\ emit_state' = <<None, NoneLineno>>
               /\ processed' = {}
               /\ stack' = <<[f_hdr |-> "duk_internal.h", i |-> 1]>>
       /\ (pc = "body" /\ pc' = "output" /\ final # <<>>) => res = final]_vars

\* a second call has emitted its last line, 'already included' lines among
\* them, and its output is the output of the first call
C11_Witness ==
    /\ pc = "body"
    /\ fi > Len(files)
    /\ final # <<>>
    /\ res = final
    /\ processed # {}
    /\ \E j \in 1..Len(res) : res[j].t = "str"

\* output line j is an origin-tagged line and a synthetic line was emitted
\* since the origin-tagged line before it
AfterSynthetic(j) ==
    /\ res[j].t = "data"
    /\ PrevData(j) > 0
    /\ StrBetween(PrevData(j), j) > 0

TopInclude ==
    IF stack # <<>> /\ top.i <= Len(tree[top.f_hdr])
    THEN InternalName(tree[top.f_hdr][top.i])
    ELSE None

\* that header is not loaded and is not one of those kept as directives
UnresolvedAtTop == TopInclude \notin ({None} \cup KeptNames \cup Loaded)

(***************************************************************************)
(* C13. Unresolvable include during expansion: when processHeader is at an *)
(* internal include that names a header which is neither kept as a         *)
(* directive nor loaded, its next step aborts the run with the assertion   *)
(* error, emitting no line and adding nothing to the processed set; no     *)
(* step follows the abort; the named header is not in the processed set    *)
(* and createCombined has returned no output.                              *)
(***************************************************************************)
C13_UnresolvedAbortsAtDirective ==
    /\ [][(pc = "processHeader" /\ UnresolvedAtTop)
             => /\ pc' = "error"
                /\ err' = "AssertionError: f_inc"
                /\ res' = res
                /\ processed' = processed
                /\ stack' = stack]_vars
    /\ [][err # "AssertionError: f_inc"]_vars
    /\ [](err = "AssertionError: f_inc"
             => /\ pc = "error"
                /\ UnresolvedAtTop
                /\ TopInclude \notin processed
                /\ final = <<>>
                /\ outfile = "untouched")

\* C13 witness: the run was aborted after lines were emitted and with lines
\* of the header left after the directive
C13_Witness ==
    /\ err = "AssertionError: f_inc"
    /\ UnresolvedAtTop
    /\ Len(res) > Len(banner)
    /\ top.i < Len(tree[top.f_hdr])

\* the loaded header files
LoadedHeaders == {f \in Loaded : splitext(f) = ".h"}

(***************************************************************************)
(* C14. Headers are never emitted by the body pass: from the start of the  *)
(* body pass on every loaded .h file is in the processed set; no step of   *)
(* the body pass appends a line, or a '#line' marker, of a .h file; and a  *)
(* loaded header that is not reachable from the root through internal      *)
(* includes has no line in the output.                                     *)
(***************************************************************************)
C14_HeadersNotInBodyPass ==
    /\ [](pc \in {"body", "output", "done"} => LoadedHeaders \subseteq processed)
    /\ [][pc = "body"
            => \A j \in (Len(res) + 1)..Len(res') :
                  res'[j].t \in {"data", "#line"} => res'[j].file \notin LoadedHeaders]_vars
    /\ [](\A j \in 1..Len(res) :
             (res[j].t \in {"data", "#line"} /\ res[j].file \in LoadedHeaders)
                 => res[j].file \in Reachable)

\* C14 witness: the run is complete, the body pass has emitted lines of a .c
\* file, and a loaded header with lines is not reachable from the root
C14_Witness ==
    /\ pc = "done"
    /\ \E f \in LoadedHeaders : f \notin Reachable /\ Len(tree[f]) > 0
    /\ \E j \in 1..Len(res) : res[j].t = "data" /\ splitext(res[j].file) = ".c"

\* the origins <<file, line number>> of the origin-tagged lines of the output,
\* in output order
RECURSIVE OriginsOf(_)
OriginsOf(r) ==
    IF r = <<>> THEN <<>>
    ELSE IF r[1].t = "data"
         THEN <<<<r[1].file, r[1].lineno>>>> \o OriginsOf(Tail(r))
         ELSE OriginsOf(Tail(r))

\* The depth-first textual order: the origins of the lines of file f from line
\* i on, each include of a header that is loaded, not kept as a directive and
\* not in done replaced, in place, by the order of that header (done grown by
\* it first); out is the order and done the headers descended into.
RECURSIVE DepthFirst(_, _, _)
DepthFirst(f, i, done) ==
    IF i > Len(tree[f]) THEN [out |-> <<>>, done |-> done]
    ELSE LET n == InternalName(tree[f][i]) IN
         IF n = None \/ n \in KeptNames
         THEN LET r == DepthFirst(f, i + 1, done)
              IN  [out |-> <<<<f, i>>>> \o r.out, done |-> r.done]
         ELSE IF n \in done
         THEN DepthFirst(f, i + 1, done)
         ELSE LET h == DepthFirst(n, 1, done \cup {n})
                  r == DepthFirst(f, i + 1, h.done)
              IN  [out |-> h.out \o r.out, done |-> r.done]

\* the innermost call of processHeader is at an include of a loaded header
\* that is not kept as a directive and not processed yet
DescentAtTop ==
    /\ pc = "processHeader"
    /\ TopInclude \in Loaded \ KeptNames
    /\ TopInclude \notin processed

(***************************************************************************)
(* C15. In-place depth-first expansion.  When processHeader is at line n   *)
(* of header F, an include of a loaded header H that is not kept as a      *)
(* directive and not yet processed, its next step adds H to the processed  *)
(* set and starts the call for H at H's first line, F's call waiting after *)
(* line n, and emits nothing.  While a call is the innermost one, the      *)
(* calls below it stay where they are and every origin-tagged line emitted *)
(* is the line the innermost call is at.  When the expansion of the root   *)
(* is complete, the origin-tagged lines of the output are in the           *)
(* depth-first textual order of first encounters, and the processed set    *)
(* holds the headers descended into.                                       *)
(***************************************************************************)
C15_DepthFirstInPlace ==
    /\ [][DescentAtTop
            => /\ TopInclude \in processed'
               /\ res' = res
               /\ Len(stack') = Len(stack) + 1
               /\ stack'[Len(stack')] = [f_hdr |-> TopInclude, i |-> 1]
               /\ stack'[Len(stack)] = [f_hdr |-> top.f_hdr, i |-> top.i + 1]]_vars
    /\ [][pc = "processHeader"
            => /\ \A k \in 1..(Len(stack) - 1) : k <= Len(stack') => stack'[k] = stack[k]
               /\ \A j \in (Len(res) + 1)..Len(res') :
                     res'[j].t = "data"
                         => res'[j].file = top.f_hdr /\ res'[j].lineno = top.i]_vars
    /\ [](pc = "mark"
            => /\ OriginsOf(res) = DepthFirst("duk_internal.h", 1, {}).out
               /\ processed = DepthFirst("duk_internal.h", 1, {}).done)

\* C15 witness: the expansion of the root is complete and the output holds a
\* line of a header H between two lines of the header F that includes it
C15_Witness ==
    /\ pc = "mark"
    /\ \E a, b, c \in 1..Len(res) :
          /\ a < b /\ b < c
          /\ res[a].t = "data" /\ res[b].t = "data" /\ res[c].t = "data"
          /\ res[a].file = res[c].file
          /\ res[b].file # res[a].file
          /\ res[a].lineno < res[c].lineno
    /\ processed # {}

\* the innermost call of processHeader is at an include of duktape.h or
\* duk_custom.h
KeptAtTop == pc = "processHeader" /\ TopInclude \in KeptNames

Unmarked == SelectSeq(res, LAMBDA x : x.t # "#line")

\* the loaded .c files that the expansion of the root does not inline, in the
\* order of the file list
BodyFiles == SelectSeq(files, LAMBDA f : splitext(f) = ".c" /\ f \notin Reachable)

\* what the body pass is to emit for file f: line by line, the line itself
\* with its origin, or the 'include removed' comment for an internal include
BodyOf(f) ==
    [i \in 1..Len(tree[f]) |->
        IF InternalName(tree[f][i]) = None
        THEN [t |-> "data", file |-> f, lineno |-> i, data |-> tree[f][i]]
        ELSE [t |-> "str", file |-> None, lineno |-> NoneLineno,
              data |-> [form |-> "include removed",
                        name |-> InternalName(tree[f][i])]]]

RECURSIVE BodyOfAll(_)
BodyOfAll(fs) == IF fs = <<>> THEN <<>> ELSE BodyOf(fs[1]) \o BodyOfAll(Tail(fs))

C18_NoSyntheticAtSentinel ==
    /\ err # "TypeError"
    /\ \A j \in 1..Len(res) :
          res[j].t = "str" => \E q \in 1..(j - 1) : res[q].t = "data"

====
